---- MODULE Spec2Model ----
(***************************************************************************)
(* A model of python/kiss_icp/kiss_icp.py: the KissICP class, its state     *)
(* (poses, prev_frame_delta and the handles adaptive_threshold and          *)
(* local_map) and its methods register_frame, voxelize,                     *)
(* get_adaptive_threshold, get_prediction_model and has_moved.              *)
(*                                                                          *)
(* Poses are 4x4 homogeneous matrices with integer entries (rotations by    *)
(* multiples of 90 degrees, integer translations), so that the matrix       *)
(* product, the inverse and the matrix power of the code are computed       *)
(* exactly.  Scalars that the code holds as floats (frame_delta_ratio,      *)
(* voxel sizes, the kernel scale) are exact rationals <<num, den>>.         *)
(*                                                                          *)
(* The collaborators imported from other modules (motion compensator,       *)
(* preprocessor, voxel_down_sample, the ICP solver register_frame, the      *)
(* threshold estimator, the voxel hash map) are opaque: each call either    *)
(* raises or returns one of the results its contract allows, and the calls  *)
(* a method makes are recorded, in order, in the variable `call`.           *)
(***************************************************************************)
EXTENDS Integers, Sequences, FiniteSets, TLC

VARIABLES
    poses,              \* self.poses: the pose log
    prev_frame_delta,   \* self.prev_frame_delta
    adaptive_threshold, \* self.adaptive_threshold: the deviations it was updated with
    local_map,          \* self.local_map: the (points, pose) updates it received
    config,             \* self.config
    call                \* the last method call: name, arguments, collaborator calls, outcome

vars == <<poses, prev_frame_delta, adaptive_threshold, local_map, config, call>>

\* The four state components a KissICP instance owns or holds handles to.
core == <<poses, prev_frame_delta, adaptive_threshold, local_map>>

(***************************************************************************)
(* Bounds of the model.                                                     *)
(***************************************************************************)
\* register_frame is called only while the threshold estimator has received fewer
\* than MaxFrames updates (at most one per call, so the pose log holds fewer too).
MaxFrames == 3

\* The most frames registered in a run in which no collaborator raises.
MaxQuietFrames == 4

(***************************************************************************)
(* Rationals <<n, d>>, d # 0, for the floats of the code.                   *)
(***************************************************************************)
Rat(n, d) == IF d < 0 THEN <<0 - n, 0 - d>> ELSE <<n, d>>

RatMul(a, b) == Rat(a[1] * b[1], a[2] * b[2])

RatEq(a, b) == a[1] * b[2] = b[1] * a[2]

RatLeq(a, b) == a[1] * b[2] <= b[1] * a[2]

RatLess(a, b) == a[1] * b[2] < b[1] * a[2]

\* int(x) without the round: truncation.
PyTruncate(x) == x[1] \div x[2]

\* Python 3's int(round(x)): the nearest integer, a tie going to the even one.
PyRound(x) ==
    LET q == x[1] \div x[2]
        r == x[1] % x[2]
    IN  IF 2 * r < x[2] THEN q
        ELSE IF 2 * r > x[2] THEN q + 1
        ELSE IF q % 2 = 0 THEN q ELSE q + 1

(***************************************************************************)
(* 4x4 matrices: numpy's eye(4), @, linalg.inv and linalg.matrix_power.     *)
(***************************************************************************)
eye4 == << <<1, 0, 0, 0>>, <<0, 1, 0, 0>>, <<0, 0, 1, 0>>, <<0, 0, 0, 1>> >>

MatEntry(A, B, i, j) ==
    A[i][1] * B[1][j] + A[i][2] * B[2][j] + A[i][3] * B[3][j] + A[i][4] * B[4][j]

MatRow(A, B, i) ==
    << MatEntry(A, B, i, 1), MatEntry(A, B, i, 2), MatEntry(A, B, i, 3), MatEntry(A, B, i, 4) >>

\* A @ B
MatMul(A, B) == << MatRow(A, B, 1), MatRow(A, B, 2), MatRow(A, B, 3), MatRow(A, B, 4) >>

\* np.linalg.inv(T) of a rigid transform T = [R t; 0 1], which is [R^T  -R^T t; 0 1].
inv(T) ==
    LET tr(i) == 0 - (T[1][i] * T[1][4] + T[2][i] * T[2][4] + T[3][i] * T[3][4])
    IN  << <<T[1][1], T[2][1], T[3][1], tr(1)>>,
           <<T[1][2], T[2][2], T[3][2], tr(2)>>,
           <<T[1][3], T[2][3], T[3][3], tr(3)>>,
           <<0, 0, 0, 1>> >>

\* np.linalg.matrix_power(M, n): eye for n = 0, powers of the inverse for n < 0.
RECURSIVE matrix_power(_, _)
matrix_power(M, n) ==
    IF n = 0 THEN eye4
    ELSE IF n < 0 THEN matrix_power(inv(M), 0 - n)
    ELSE IF n = 1 THEN M
    ELSE MatMul(matrix_power(M, n - 1), M)

\* T[:3, -1], the translation part of a pose.
translation(T) == <<T[1][4], T[2][4], T[3][4]>>

\* The square of np.linalg.norm(v), an integer for integer v.
norm_sq(v) == v[1] * v[1] + v[2] * v[2] + v[3] * v[3]

\* The comparison of has_moved with >= for >.
NormGreaterOrEqual(nsq, bound) == bound <= 0 \/ nsq >= bound * bound

\* norm > bound for a norm given by its square: a norm is never negative, so it
\* exceeds every negative bound, and it exceeds bound >= 0 iff its square does.
NormGreater(nsq, bound) == bound < 0 \/ nsq > bound * bound

(***************************************************************************)
(* Inputs and collaborator results.                                         *)
(***************************************************************************)
\* A rotation by 90 degrees about z with translation (3, 4, 0): the norm of the
\* translation is exactly 5.
PoseA == << <<0, -1, 0, 3>>, <<1, 0, 0, 4>>, <<0, 0, 1, 0>>, <<0, 0, 0, 1>> >>

\* A pure translation by (9, 12, 0): 15 from the origin, 10 from PoseA.
PoseB == << <<1, 0, 0, 9>>, <<0, 1, 0, 12>>, <<0, 0, 1, 0>>, <<0, 0, 0, 1>> >>

\* The poses the ICP solver may return.
SolverPoses == {eye4, PoseA, PoseB}

\* The configurations a KissICP is constructed with (lengths in model units).
Configs ==
    { [voxel_size |-> 8, initial_threshold |-> 2, min_motion_th |-> 1] }

\* The values adaptive_threshold.get_threshold() may return.
ThresholdValues == {3}

\* Point clouds are sets of points <<x, y, z>>.
RawFrame == { <<2, 0, 0>>, <<3, 0, 0>>, <<5, 0, 0>>, <<90, 0, 0>>, <<91, 0, 0>> }

DeskewedFrame == { <<2, 0, 0>>, <<3, 0, 0>>, <<5, 0, 0>>, <<90, 0, 0>> }

PreprocessedFrame == { <<2, 0, 0>>, <<3, 0, 0>>, <<5, 0, 0>> }

\* The frames register_frame is called with, and those the motion compensator
\* and the preprocessor may return.
Frames == {RawFrame}

DeskewedFrames == {DeskewedFrame}

PreprocessedFrames == {PreprocessedFrame}

Timestamps == {"timestamps"}

\* The values of the argument frame_delta.
FrameDeltas == {-1, 0, 1, 2}

\* The values of the argument frame_delta_ratio of get_prediction_model.
Ratios ==
    { <<2, 5>>, <<1, 2>>, <<51, 100>>, <<3, 5>>, <<99, 100>>, <<1, 1>>, <<3, 2>>, <<2, 1>>,
      <<5, 2>> }

\* Which point of a voxel voxel_down_sample keeps depends on the order it
\* meets the points in: the lowest or the highest in lexicographic order.
Picks == {"lowest", "highest"}

\* The behaviour of the collaborators during one method call: the call that
\* raises ("none" when none does) and what the others return.
Env(raises, deskewed, preprocessed, pick1, pick2, threshold, new_pose) ==
    [ raises |-> raises, deskewed |-> deskewed, preprocessed |-> preprocessed,
      pick1 |-> pick1, pick2 |-> pick2, threshold |-> threshold, new_pose |-> new_pose ]

\* The behaviours that differ in what a method call can observe: what a
\* collaborator would have returned after the raising call is left out.
Envs ==
    LET d0 == CHOOSE d \in DeskewedFrames : TRUE
        f0 == CHOOSE f \in PreprocessedFrames : TRUE
        t0 == CHOOSE t \in ThresholdValues : TRUE
    IN  { Env("deskew_scan", d0, f0, "highest", "lowest", t0, eye4) }
        \cup { Env("preprocess", d, f0, "highest", "lowest", t0, eye4) : d \in DeskewedFrames }
        \cup { Env("voxel_down_sample#1", x[1], x[2], "highest", "lowest", t0, eye4) :
                 x \in DeskewedFrames \X PreprocessedFrames }
        \cup { Env("voxel_down_sample#2", x[1], x[2], x[3], "lowest", t0, eye4) :
                 x \in DeskewedFrames \X PreprocessedFrames \X Picks }
        \cup { Env("get_threshold", x[1], x[2], x[3], x[4], t0, eye4) :
                 x \in DeskewedFrames \X PreprocessedFrames \X Picks \X Picks }
        \cup { Env("register_frame", x[1], x[2], x[3], x[4], x[5], eye4) :
                 x \in DeskewedFrames \X PreprocessedFrames \X Picks \X Picks \X ThresholdValues }
        \cup { Env(x[7], x[1], x[2], x[3], x[4], x[5], x[6]) :
                 x \in DeskewedFrames \X PreprocessedFrames \X Picks \X Picks \X ThresholdValues
                       \X SolverPoses \X {"update_model_deviation", "local_map.update", "none"} }

\* No collaborator is called when frame_delta is refused, so one behaviour stands
\* for all of them there; in register_frame the first voxel_down_sample meets the
\* points of the frame in one order.
EnvsOf(frame_delta) ==
    IF frame_delta <= 0
    THEN { Env("none", CHOOSE d \in DeskewedFrames : TRUE, CHOOSE f \in PreprocessedFrames : TRUE,
               "highest", "lowest", CHOOSE t \in ThresholdValues : TRUE, PoseA) }
    ELSE { env \in Envs : env.pick1 = "highest" }

(***************************************************************************)
(* The collaborators.  A collaborator call is recorded as an event          *)
(* [fn, args, raised, ret], args and ret tagged with fn; a call that raised  *)
(* returned nothing.                                                        *)
(***************************************************************************)
Event(fn, args, ret) ==
    [fn |-> fn, args |-> (fn :> args), raised |-> FALSE, ret |-> (fn :> ret)]

RaisedEvent(fn, args) == [fn |-> fn, args |-> (fn :> args), raised |-> TRUE, ret |-> <<>>]

ArgsOf(e) == e.args[e.fn]

RetOf(e) == e.ret[e.fn]

\* The voxel of a point: the grid cell of edge size[1] / size[2] it lies in.
voxel_of(p, size) ==
    << (p[1] * size[2]) \div size[1], (p[2] * size[2]) \div size[1],
       (p[3] * size[2]) \div size[1] >>

PointLess(p, q) ==
    \/ p[1] < q[1]
    \/ p[1] = q[1] /\ p[2] < q[2]
    \/ p[1] = q[1] /\ p[2] = q[2] /\ p[3] < q[3]

\* voxel_down_sample(frame, size): one point of the frame for each voxel it occupies.
voxel_down_sample(frame, size, pick) ==
    { p \in frame :
        \A q \in frame :
            (q # p /\ voxel_of(q, size) = voxel_of(p, size)) =>
                IF pick = "lowest" THEN PointLess(p, q) ELSE PointLess(q, p) }

(***************************************************************************)
(* The KissICP instance and its methods.                                    *)
(***************************************************************************)
\* self, as the methods read it.
Self ==
    [ poses |-> poses, prev_frame_delta |-> prev_frame_delta,
      adaptive_threshold |-> adaptive_threshold, local_map |-> local_map,
      config |-> config ]

\* What a method call leaves behind: self, the collaborator calls it made, the
\* exception it raised ("none" when it returned) and the value it returned.
Outcome(self, events, raised, ret) ==
    [self |-> self, events |-> events, raised |-> raised, ret |-> ret]

\* The motion measured from the origin instead of from T1.
compute_motion_from_origin(T1, T2) == norm_sq(translation(T2))

\* compute_motion = lambda T1, T2: norm((inv(T1) @ T2)[:3, -1]), as its square.
compute_motion(T1, T2) == norm_sq(translation(MatMul(inv(T1), T2)))

\* KissICP.has_moved
\* The motion measured from the pose before the last one.
reference_pose_previous(log) == log[IF Len(log) > 1 THEN Len(log) - 1 ELSE 1]

\* self.poses[0], the pose has_moved measures the motion from
reference_pose(log) == log[1]

has_moved(self) ==
    IF Len(self.poses) < 1 THEN FALSE
    ELSE LET motion == compute_motion(reference_pose(self.poses), self.poses[Len(self.poses)])
         IN  NormGreater(motion, 5 * self.config.min_motion_th)

\* KissICP.get_prediction_model
\* The exponent taken one too small.
prediction_exponent_less_one(frame_delta_ratio) == PyRound(frame_delta_ratio) - 1

\* int(round(frame_delta_ratio)), the exponent of np.linalg.matrix_power
prediction_exponent(frame_delta_ratio) == PyRound(frame_delta_ratio)

get_prediction_model(self, frame_delta_ratio) ==
    IF Len(self.poses) < 2 THEN eye4
    ELSE LET n == Len(self.poses)
             model == MatMul(inv(self.poses[n - 1]), self.poses[n])
         IN  IF RatLeq(frame_delta_ratio, <<1, 2>>) THEN model
             ELSE matrix_power(model, prediction_exponent(frame_delta_ratio))

\* The condition of get_adaptive_threshold with its "not" left out.
use_initial_threshold_negated(self) == has_moved(self)

\* "if not self.has_moved()": the configured initial threshold is used.
use_initial_threshold(self) == ~ has_moved(self)

\* KissICP.get_adaptive_threshold
get_adaptive_threshold(self, env) ==
    IF use_initial_threshold(self)
    THEN Outcome(self, <<>>, "none", self.config.initial_threshold)
    ELSE IF env.raises = "get_threshold"
         THEN Outcome(self, << RaisedEvent("get_threshold", self.adaptive_threshold) >>,
                      "Exception", <<>>)
         ELSE Outcome(self, << Event("get_threshold", self.adaptive_threshold, env.threshold) >>,
                      "none", env.threshold)

\* The second voxel_down_sample applied to the frame itself.
second_downsample_input_independent(iframe, frame_downsample) == iframe

\* The cloud the second voxel_down_sample is applied to: frame_downsample.
second_downsample_input(iframe, frame_downsample) == frame_downsample

\* KissICP.voxelize; ret = <<source, frame_downsample>>
voxelize(self, iframe, env) ==
    LET size1 == RatMul(<<self.config.voxel_size, 1>>, <<1, 2>>)
        size2 == RatMul(<<self.config.voxel_size, 1>>, <<3, 2>>)
        frame_downsample == voxel_down_sample(iframe, size1, env.pick1)
        in1 == [frame |-> iframe, size |-> size1]
        in2 == [frame |-> second_downsample_input(iframe, frame_downsample), size |-> size2]
        source == voxel_down_sample(in2.frame, size2, env.pick2)
    IN  IF env.raises = "voxel_down_sample#1"
        THEN Outcome(self, << RaisedEvent("voxel_down_sample", in1) >>, "Exception", <<>>)
        ELSE IF env.raises = "voxel_down_sample#2"
        THEN Outcome(self, << Event("voxel_down_sample", in1, frame_downsample),
                              RaisedEvent("voxel_down_sample", in2) >>, "Exception", <<>>)
        ELSE Outcome(self, << Event("voxel_down_sample", in1, frame_downsample),
                              Event("voxel_down_sample", in2, source) >>,
                     "none", <<source, frame_downsample>>)

\* initial_guess with last_pose left out.
initial_guess_of_prediction_only(self, prediction) == prediction

\* initial_guess = last_pose @ prediction, last_pose = poses[-1] if poses else eye(4)
initial_guess_of(self, prediction) ==
    LET last_pose == IF Len(self.poses) > 0 THEN self.poses[Len(self.poses)] ELSE eye4
    IN  MatMul(last_pose, prediction)

\* The deviation with its factors in the other order.
model_deviation_swapped(initial_guess, new_pose) == MatMul(new_pose, inv(initial_guess))

\* The argument of update_model_deviation: np.linalg.inv(initial_guess) @ new_pose
model_deviation(initial_guess, new_pose) == MatMul(inv(initial_guess), new_pose)

\* The solver given frame_downsample instead of source.
registration_points_swapped(source, frame_downsample) == frame_downsample

\* The clouds register_frame hands on: source to the solver, frame_downsample to the map.
registration_points(source, frame_downsample) == source

map_update_points(source, frame_downsample) == frame_downsample

\* The arguments max_correspondance_distance = 3 * sigma and kernel = sigma / 3.
max_correspondance_distance(sigma) == 3 * sigma

\* The kernel multiplied by 3 instead of divided.
kernel_multiplied(sigma) == Rat(3 * sigma, 1)

kernel(sigma) == Rat(sigma, 3)

\* The map updated at the initial guess instead of the pose the solver returned.
map_update_pose_guessed(initial_guess, new_pose) == initial_guess

\* The pose of self.local_map.update(frame_downsample, new_pose)
map_update_pose(initial_guess, new_pose) == new_pose

\* The new pose put at the front of the log.
append_pose_front(log, new_pose) == <<new_pose>> \o log

\* self.poses.append(new_pose)
append_pose(log, new_pose) == Append(log, new_pose)

\* The threshold model not updated when the deviation is the identity.
update_model_deviation_if_any(updates, deviation) ==
    IF deviation = eye4 THEN updates ELSE Append(updates, deviation)

\* self.adaptive_threshold.update_model_deviation(...): the model has received one
\* more update.
update_model_deviation(updates, deviation) == Append(updates, deviation)

\* register_frame from "Run ICP" on: the solver, the two updates, the append.
run_icp(self, frame_delta, frame, source, frame_downsample, sigma, initial_guess, env, before) ==
    LET solve_in == [ points |-> registration_points(source, frame_downsample),
                      voxel_map |-> self.local_map,
                      initial_guess |-> initial_guess,
                      max_correspondance_distance |-> max_correspondance_distance(sigma),
                      kernel |-> kernel(sigma) ]
        new_pose == env.new_pose
        deviation == model_deviation(initial_guess, new_pose)
        map_in == [ points |-> map_update_points(source, frame_downsample),
                    pose |-> map_update_pose(initial_guess, new_pose) ]
        solved == before \o << Event("register_frame", solve_in, new_pose) >>
        self1 == [self EXCEPT !.adaptive_threshold = update_model_deviation(@, deviation)]
        self2 == [self1 EXCEPT !.local_map = Append(@, map_in)]
        self3 == [self2 EXCEPT !.poses = append_pose(@, new_pose)]
        self4 == [self3 EXCEPT !.prev_frame_delta = frame_delta]
    IN  IF env.raises = "register_frame"
        THEN Outcome(self, before \o << RaisedEvent("register_frame", solve_in) >>,
                     "Exception", <<>>)
        ELSE IF env.raises = "update_model_deviation"
        THEN Outcome(self, solved \o << RaisedEvent("update_model_deviation", deviation) >>,
                     "Exception", <<>>)
        ELSE IF env.raises = "local_map.update"
        THEN Outcome(self1, solved \o << Event("update_model_deviation", deviation, "None"),
                                         RaisedEvent("local_map.update", map_in) >>,
                     "Exception", <<>>)
        ELSE Outcome(self4, solved \o << Event("update_model_deviation", deviation, "None"),
                                         Event("local_map.update", map_in, "None"),
                                         Event("poses.append", new_pose, "None"),
                                         Event("prev_frame_delta", frame_delta, "None") >>,
                     "none", <<frame, source>>)

\* register_frame from "Voxelize" on, for the preprocessed frame.
register_preprocessed(self, frame_delta, frame_delta_ratio, frame, env, before) ==
    LET vox == voxelize(self, frame, env)
        thr == get_adaptive_threshold(self, env)
        sigma == thr.ret
        prediction == get_prediction_model(self, frame_delta_ratio)
        initial_guess == initial_guess_of(self, prediction)
        voxelized == before \o vox.events
    IN  IF vox.raised # "none" THEN Outcome(self, voxelized, vox.raised, <<>>)
        ELSE IF thr.raised # "none" THEN Outcome(self, voxelized \o thr.events, thr.raised, <<>>)
        ELSE run_icp(self, frame_delta, frame, vox.ret[1], vox.ret[2], sigma, initial_guess, env,
                     voxelized \o thr.events
                       \o << Event("get_prediction_model", frame_delta_ratio, prediction) >>)

\* The ratio with numerator and denominator exchanged.
frame_delta_ratio_inverted(frame_delta, previous) == Rat(previous, frame_delta)

\* frame_delta_ratio = frame_delta / self.prev_frame_delta
frame_delta_ratio_of(frame_delta, previous) == Rat(frame_delta, previous)

\* The deskewer given frame_delta itself.
deskew_ratio_unscaled(frame_delta, frame_delta_ratio) == Rat(frame_delta, 1)

\* The fourth argument of deskew_scan: frame_delta_ratio
deskew_ratio(frame_delta, frame_delta_ratio) == frame_delta_ratio

\* The check of frame_delta with < for <=.
frame_delta_refused_strict(frame_delta) == frame_delta < 0

\* "if frame_delta <= 0": register_frame raises.
frame_delta_refused(frame_delta) == frame_delta <= 0

\* KissICP.register_frame
register_frame(self, frame, timestamps, frame_delta, env) ==
    IF frame_delta_refused(frame_delta) THEN Outcome(self, <<>>, "RuntimeError", <<>>)
    ELSE IF self.prev_frame_delta = 0 THEN Outcome(self, <<>>, "ZeroDivisionError", <<>>)
    ELSE LET frame_delta_ratio == frame_delta_ratio_of(frame_delta, self.prev_frame_delta)
             deskew_in == [ frame |-> frame, poses |-> self.poses, timestamps |-> timestamps,
                            frame_delta_ratio |-> deskew_ratio(frame_delta, frame_delta_ratio) ]
             deskewed == << Event("deskew_scan", deskew_in, env.deskewed) >>
         IN  IF env.raises = "deskew_scan"
             THEN Outcome(self, << RaisedEvent("deskew_scan", deskew_in) >>, "Exception", <<>>)
             ELSE IF env.raises = "preprocess"
             THEN Outcome(self, deskewed \o << RaisedEvent("preprocess", env.deskewed) >>,
                          "Exception", <<>>)
             ELSE register_preprocessed(self, frame_delta, frame_delta_ratio, env.preprocessed, env,
                      deskewed \o << Event("preprocess", env.deskewed, env.preprocessed) >>)

(***************************************************************************)
(* The state machine: one action per public method.                         *)
(***************************************************************************)
\* The record of a method call, args and ret tagged with the method's name.
Call(op, args, out) ==
    [ op |-> op, args |-> (op :> args), events |-> out.events, raised |-> out.raised,
      ret |-> IF out.raised = "none" THEN (op :> out.ret) ELSE <<>> ]

CallArgs(c) == c.args[c.op]

CallRet(c) == c.ret[c.op]

\* KissICP.__init__
Init ==
    /\ poses = <<>>
    /\ prev_frame_delta = 1
    /\ adaptive_threshold = <<>>
    /\ local_map = <<>>
    /\ config \in Configs
    /\ call = [op |-> "__init__", args |-> <<>>, events |-> <<>>, raised |-> "none", ret |-> <<>>]

Commit(op, args, out) ==
    /\ poses' = out.self.poses
    /\ prev_frame_delta' = out.self.prev_frame_delta
    /\ adaptive_threshold' = out.self.adaptive_threshold
    /\ local_map' = out.self.local_map
    /\ config' = out.self.config
    /\ call' = Call(op, args, out)

RegisterFrame ==
    /\ Len(adaptive_threshold) < MaxFrames
    /\ \E frame \in Frames, timestamps \in Timestamps, frame_delta \in FrameDeltas :
       \E env \in EnvsOf(frame_delta) :
          Commit("register_frame",
                 [frame |-> frame, timestamps |-> timestamps, frame_delta |-> frame_delta],
                 register_frame(Self, frame, timestamps, frame_delta, env))

Voxelize ==
    \E iframe \in PreprocessedFrames, env \in Envs :
        /\ env.raises \in {"voxel_down_sample#1", "voxel_down_sample#2", "get_threshold"}
        /\ Commit("voxelize", iframe, voxelize(Self, iframe, env))

GetAdaptiveThreshold ==
    \E env \in Envs :
        /\ env.raises \in {"get_threshold", "register_frame"}
        /\ Commit("get_adaptive_threshold", <<>>, get_adaptive_threshold(Self, env))

GetPredictionModel ==
    \E frame_delta_ratio \in Ratios :
        Commit("get_prediction_model", frame_delta_ratio,
               Outcome(Self, <<>>, "none", get_prediction_model(Self, frame_delta_ratio)))

HasMoved ==
    Commit("has_moved", <<>>, Outcome(Self, <<>>, "none", has_moved(Self)))

Next ==
    \/ RegisterFrame
    \/ Voxelize
    \/ GetAdaptiveThreshold
    \/ GetPredictionModel
    \/ HasMoved

Spec == Init /\ [][Next]_vars

(***************************************************************************)
(* The runs in which no collaborator raises: register_frame with valid and  *)
(* invalid frame_delta, get_adaptive_threshold and has_moved, over longer   *)
(* pose logs and with a min_motion_th of 0 as well.                         *)
(***************************************************************************)
QuietConfigs ==
    Configs \cup { [voxel_size |-> 8, initial_threshold |-> 2, min_motion_th |-> 0] }

\* KissICP.__init__
QuietInit ==
    /\ poses = <<>>
    /\ prev_frame_delta = 1
    /\ adaptive_threshold = <<>>
    /\ local_map = <<>>
    /\ config \in QuietConfigs
    /\ call = [op |-> "__init__", args |-> <<>>, events |-> <<>>, raised |-> "none", ret |-> <<>>]

QuietRegisterFrame ==
    /\ Len(adaptive_threshold) < MaxQuietFrames
    /\ \E frame \in Frames, timestamps \in Timestamps, frame_delta \in FrameDeltas :
       \E env \in EnvsOf(frame_delta) :
          /\ env.raises = "none"
          /\ Commit("register_frame",
                    [frame |-> frame, timestamps |-> timestamps, frame_delta |-> frame_delta],
                    register_frame(Self, frame, timestamps, frame_delta, env))

QuietGetAdaptiveThreshold ==
    \E env \in Envs :
        /\ env.raises = "none"
        /\ Commit("get_adaptive_threshold", <<>>, get_adaptive_threshold(Self, env))

QuietNext ==
    \/ QuietRegisterFrame
    \/ QuietGetAdaptiveThreshold
    \/ HasMoved

QuietSpec == QuietInit /\ [][QuietNext]_vars

(***************************************************************************)
(* Reading the record of a call.                                            *)
(***************************************************************************)
\* The collaborator calls named fn that call c made, in order.
EventsOf(c, fn) == SelectSeq(c.events, LAMBDA e : e.fn = fn)

Registered(c) == c.op = "register_frame"

Succeeded(c) == c.op = "register_frame" /\ c.raised = "none"

\* The call of the ICP solver that call c made.
SolverCall(c) == EventsOf(c, "register_frame")[1]

\* Everything register_frame reads of self.
read_by_register_frame == <<poses, prev_frame_delta, adaptive_threshold, local_map, config>>

(***************************************************************************)
(* C1. A register_frame call with frame_delta <= 0 raises the error of the  *)
(* frame_delta check before any collaborator is called, and leaves the pose *)
(* log, the threshold model, the voxel map and prev_frame_delta (and the    *)
(* configuration) as they were; these are all that register_frame reads, so *)
(* a following call meets the state the refused call met.                   *)
(***************************************************************************)
C1_RefusedFrameDeltaChangesNothing ==
    [][ (Registered(call') /\ CallArgs(call').frame_delta <= 0) =>
            /\ call'.raised = "RuntimeError"
            /\ call'.events = <<>>
            /\ UNCHANGED read_by_register_frame ]_vars

C1_Witness ==
    /\ Registered(call)
    /\ CallArgs(call).frame_delta <= 0
    /\ call.raised = "RuntimeError"
    /\ Len(poses) >= 1
    /\ Len(adaptive_threshold) >= 1

(***************************************************************************)
(* C2. The pose log is append-only: it starts empty, a register_frame call  *)
(* that returns appends the pose the solver returned and nothing else, and  *)
(* every other step (a register_frame that raises, voxelize,                *)
(* get_adaptive_threshold, get_prediction_model, has_moved) leaves it as it *)
(* is.                                                                      *)
(***************************************************************************)
C2_PoseLogAppendOnly ==
    /\ poses = <<>>
    /\ [][ IF Succeeded(call')
           THEN poses' = Append(poses, RetOf(SolverCall(call')))
           ELSE poses' = poses ]_vars

C2_Witness ==
    /\ Succeeded(call)
    /\ Len(poses) = 3
    /\ poses[1] # poses[2]
    /\ poses[2] # poses[3]

(***************************************************************************)
(* C3. A register_frame call that raises has changed none of the pose log,  *)
(* the threshold model, the voxel map and prev_frame_delta.                 *)
(***************************************************************************)
C3_AllOrNothing ==
    [][ (Registered(call') /\ call'.raised # "none") => UNCHANGED core ]_vars

(***************************************************************************)
(* C4. A register_frame call that returns, the solver having returned P     *)
(* for the initial guess G = last_pose @ prediction: appends P to the pose  *)
(* log, updates the threshold model exactly once, with inv(G) @ P, and      *)
(* updates the voxel map exactly once, at pose P.                           *)
(***************************************************************************)
C4_OneUpdateEach ==
    [][ Succeeded(call') =>
          LET P == RetOf(SolverCall(call'))
              last_pose == IF poses = <<>> THEN eye4 ELSE poses[Len(poses)]
              G == MatMul(last_pose, RetOf(EventsOf(call', "get_prediction_model")[1]))
          IN  /\ poses'[Len(poses')] = P
              /\ ArgsOf(SolverCall(call')).initial_guess = G
              /\ adaptive_threshold' = Append(adaptive_threshold, MatMul(inv(G), P))
              /\ Len(EventsOf(call', "update_model_deviation")) = 1
              /\ Len(local_map') = Len(local_map) + 1
              /\ SubSeq(local_map', 1, Len(local_map)) = local_map
              /\ local_map'[Len(local_map')].pose = P
              /\ Len(EventsOf(call', "local_map.update")) = 1
              /\ ArgsOf(EventsOf(call', "local_map.update")[1]).pose = P ]_vars

\* The prediction was not the identity: the deviation inv(G) @ P differs from the
\* displacement from the last pose, and from P @ inv(G).
C4_Witness ==
    /\ Succeeded(call)
    /\ Len(poses) = 3
    /\ ArgsOf(SolverCall(call)).initial_guess # poses[2]
    /\ adaptive_threshold[Len(adaptive_threshold)] # MatMul(inv(poses[2]), poses[3])
    /\ adaptive_threshold[Len(adaptive_threshold)]
         # MatMul(poses[3], inv(ArgsOf(SolverCall(call)).initial_guess))

(***************************************************************************)
(* C5. Of the two clouds voxelize produces, the finer is the one            *)
(* downsampled with the smaller voxel size and the coarser the one          *)
(* downsampled with the larger.                                             *)
(***************************************************************************)
Downsamples(c) == EventsOf(c, "voxel_down_sample")

FinerCloud(c) ==
    LET e == Downsamples(c)
    IN  IF RatLess(ArgsOf(e[1]).size, ArgsOf(e[2]).size) THEN RetOf(e[1]) ELSE RetOf(e[2])

CoarserCloud(c) ==
    LET e == Downsamples(c)
    IN  IF RatLess(ArgsOf(e[1]).size, ArgsOf(e[2]).size) THEN RetOf(e[2]) ELSE RetOf(e[1])

SolverInvoked(c) == c.op = "register_frame" /\ EventsOf(c, "register_frame") # <<>>

MapUpdateInvoked(c) == c.op = "register_frame" /\ EventsOf(c, "local_map.update") # <<>>

\* C5 as claimed: register_frame gives the solver the finer cloud and updates the
\* voxel map with the coarser cloud.
C5_SolverFinerMapCoarser ==
    /\ SolverInvoked(call) => ArgsOf(SolverCall(call)).points = FinerCloud(call)
    /\ MapUpdateInvoked(call) =>
           ArgsOf(EventsOf(call, "local_map.update")[1]).points = CoarserCloud(call)

\* C5 as amended: register_frame gives the solver the coarser cloud (1.5 x
\* voxel_size) and updates the voxel map with the finer cloud (0.5 x voxel_size).
C5_SolverCoarserMapFiner ==
    /\ SolverInvoked(call) =>
           /\ ArgsOf(SolverCall(call)).points = CoarserCloud(call)
           /\ RatEq(ArgsOf(Downsamples(call)[2]).size, <<3 * config.voxel_size, 2>>)
    /\ MapUpdateInvoked(call) =>
           /\ ArgsOf(EventsOf(call, "local_map.update")[1]).points = FinerCloud(call)
           /\ RatEq(ArgsOf(Downsamples(call)[1]).size, <<config.voxel_size, 2>>)
    /\ Succeeded(call) => local_map[Len(local_map)].points = FinerCloud(call)

C5_Witness ==
    /\ Succeeded(call)
    /\ FinerCloud(call) # CoarserCloud(call)
    /\ Cardinality(FinerCloud(call)) > Cardinality(CoarserCloud(call))
    /\ local_map[Len(local_map)].points = FinerCloud(call)

(***************************************************************************)
(* C6. The two clouds are cascaded: the first voxel_down_sample is applied  *)
(* to the filtered frame with 0.5 x voxel_size and gives the map-update     *)
(* cloud, the second is applied to that cloud (not to the filtered frame)   *)
(* with 1.5 x voxel_size and gives the registration cloud; the registration *)
(* cloud keeps one point of the map-update cloud for each coarse voxel it   *)
(* occupies, so each of its points lies in a 0.5 x voxel_size voxel that    *)
(* the map-update cloud occupies.                                           *)
(***************************************************************************)
\* out keeps exactly one point of cloud for each voxel of edge size that cloud occupies.
IsDownsampleOf(out, cloud, size) ==
    /\ out \subseteq cloud
    /\ \A p \in cloud :
          Cardinality({ q \in out : voxel_of(q, size) = voxel_of(p, size) }) = 1

VoxelizedTwice(c) ==
    /\ c.op \in {"register_frame", "voxelize"}
    /\ Len(Downsamples(c)) = 2
    /\ ~ Downsamples(c)[2].raised

FilteredFrame(c) ==
    IF c.op = "voxelize" THEN CallArgs(c) ELSE RetOf(EventsOf(c, "preprocess")[1])

C6_CascadedDownsampling ==
    VoxelizedTwice(call) =>
        LET e == Downsamples(call)
            half == <<config.voxel_size, 2>>
            one_and_a_half == <<3 * config.voxel_size, 2>>
        IN  /\ ArgsOf(e[1]).frame = FilteredFrame(call)
            /\ RatEq(ArgsOf(e[1]).size, half)
            /\ ArgsOf(e[2]).frame = RetOf(e[1])
            /\ RatEq(ArgsOf(e[2]).size, one_and_a_half)
            /\ IsDownsampleOf(RetOf(e[1]), FilteredFrame(call), half)
            /\ IsDownsampleOf(RetOf(e[2]), RetOf(e[1]), one_and_a_half)
            /\ \A p \in RetOf(e[2]) :
                  \E q \in RetOf(e[1]) : voxel_of(q, half) = voxel_of(p, half)
            /\ (call.raised = "none" /\ call.op = "voxelize") =>
                  CallRet(call) = <<RetOf(e[2]), RetOf(e[1])>>

\* Both downsamplings dropped points, and the registration cloud holds a point that
\* a downsampling of the filtered frame itself, in the same order, would not keep.
C6_Witness ==
    /\ Succeeded(call)
    /\ VoxelizedTwice(call)
    /\ Cardinality(RetOf(Downsamples(call)[1])) < Cardinality(FilteredFrame(call))
    /\ Cardinality(RetOf(Downsamples(call)[2])) < Cardinality(RetOf(Downsamples(call)[1]))
    /\ \E p \in RetOf(Downsamples(call)[2]), q \in FilteredFrame(call) :
          /\ PointLess(q, p)
          /\ voxel_of(q, ArgsOf(Downsamples(call)[2]).size) = voxel_of(p, ArgsOf(Downsamples(call)[2]).size)
          /\ \A r \in RetOf(Downsamples(call)[1]) : r = p \/ PointLess(p, r)

(***************************************************************************)
(* C7. has_moved returns FALSE when the pose log is empty or the distance   *)
(* between the translations of the first and the last pose is at most       *)
(* 5 x min_motion_th, and TRUE otherwise; a distance of exactly             *)
(* 5 x min_motion_th gives FALSE, and the rotations of the two poses play   *)
(* no part.  (min_motion_th >= 0 in every configuration of the model.)      *)
(***************************************************************************)
\* The squared distance between the translation parts of two poses.
TranslationDistSq(T1, T2) ==
    (T2[1][4] - T1[1][4]) * (T2[1][4] - T1[1][4])
      + (T2[2][4] - T1[2][4]) * (T2[2][4] - T1[2][4])
      + (T2[3][4] - T1[3][4]) * (T2[3][4] - T1[3][4])

Rotation(T) == << <<T[1][1], T[1][2], T[1][3]>>, <<T[2][1], T[2][2], T[2][3]>>,
                  <<T[3][1], T[3][2], T[3][3]>> >>

C7_HasMoved ==
    call.op = "has_moved" =>
        CallRet(call) = ( /\ poses # <<>>
                     /\ TranslationDistSq(poses[1], poses[Len(poses)])
                          > 25 * config.min_motion_th * config.min_motion_th )

\* The tie: two poses of different rotation exactly 5 x min_motion_th apart.
C7_Witness ==
    /\ call.op = "has_moved"
    /\ Len(poses) >= 2
    /\ config.min_motion_th > 0
    /\ TranslationDistSq(poses[1], poses[Len(poses)])
         = 25 * config.min_motion_th * config.min_motion_th
    /\ Rotation(poses[1]) # Rotation(poses[Len(poses)])
    /\ CallRet(call) = FALSE

(***************************************************************************)
(* C8. With fewer than two logged poses get_prediction_model returns the    *)
(* identity for every frame_delta_ratio; in register_frame the initial      *)
(* guess given to the solver is then the identity when the log is empty and *)
(* the logged pose when it holds one pose.                                  *)
(***************************************************************************)
C8_FewPosesPredictIdentity ==
    [][ Len(poses) < 2 =>
          /\ call'.op = "get_prediction_model" => CallRet(call') = eye4
          /\ (Registered(call') /\ EventsOf(call', "get_prediction_model") # <<>>) =>
                 RetOf(EventsOf(call', "get_prediction_model")[1]) = eye4
          /\ SolverInvoked(call') =>
                 ArgsOf(SolverCall(call')).initial_guess
                     = IF poses = <<>> THEN eye4 ELSE poses[1] ]_vars

C8_Witness ==
    /\ Succeeded(call)
    /\ Len(poses) = 2
    /\ poses[1] # eye4
    /\ ArgsOf(SolverCall(call)).initial_guess = poses[1]
    /\ ArgsOf(EventsOf(call, "get_prediction_model")[1]) # <<1, 1>>

(***************************************************************************)
(* C9. With at least two logged poses and model = inv(pose[n-2]) @          *)
(* pose[n-1], get_prediction_model returns model when frame_delta_ratio <=  *)
(* 0.5 and otherwise model to the power round(frame_delta_ratio), the       *)
(* integer nearest to the ratio (of two equally near, the even one): model  *)
(* @ model for the ratio 2, model for the ratio 0.4.                        *)
(***************************************************************************)
\* k is round(x): no integer is nearer to x, and k is even if x lies half way.
IsRoundOf(k, x) ==
    LET twice_dist == IF 2 * (x[1] - k * x[2]) >= 0 THEN 2 * (x[1] - k * x[2])
                      ELSE 2 * (k * x[2] - x[1])
    IN  \/ twice_dist < x[2]
        \/ twice_dist = x[2] /\ k % 2 = 0

PredictionIs(prediction, log, ratio) ==
    LET n == Len(log)
        model == MatMul(inv(log[n - 1]), log[n])
    IN  /\ RatLeq(ratio, <<1, 2>>) => prediction = model
        /\ ~ RatLeq(ratio, <<1, 2>>) =>
              \E k \in 1 .. 8 : IsRoundOf(k, ratio) /\ prediction = matrix_power(model, k)
        /\ RatEq(ratio, <<2, 1>>) => prediction = MatMul(model, model)
        /\ RatEq(ratio, <<2, 5>>) => prediction = model

C9_PredictionModel ==
    [][ Len(poses) >= 2 =>
          /\ call'.op = "get_prediction_model" =>
                 PredictionIs(CallRet(call'), poses, CallArgs(call'))
          /\ (Registered(call') /\ EventsOf(call', "get_prediction_model") # <<>>) =>
                 PredictionIs(RetOf(EventsOf(call', "get_prediction_model")[1]), poses,
                              ArgsOf(EventsOf(call', "get_prediction_model")[1])) ]_vars

\* The ratio 2.5, half way between 2 and 3, gives the second power of a model
\* whose powers differ.
C9_Witness ==
    /\ call.op = "get_prediction_model"
    /\ Len(poses) >= 2
    /\ CallArgs(call) = <<5, 2>>
    /\ LET model == MatMul(inv(poses[Len(poses) - 1]), poses[Len(poses)])
       IN  /\ CallRet(call) = MatMul(model, model)
           /\ CallRet(call) # model
           /\ CallRet(call) # matrix_power(model, 3)

(***************************************************************************)
(* C10. In a register_frame call sigma is the configured initial threshold  *)
(* when has_moved, on the pose log as it is before this call appends to it, *)
(* is FALSE, and then get_threshold is not called; otherwise sigma is what  *)
(* get_threshold returned.  get_adaptive_threshold returns the same.        *)
(***************************************************************************)
SigmaIs(c, sigma) ==
    /\ ArgsOf(SolverCall(c)).max_correspondance_distance = 3 * sigma
    /\ RatEq(ArgsOf(SolverCall(c)).kernel, <<sigma, 3>>)

C10_SigmaSource ==
    [][ /\ (Registered(call') /\ ~ has_moved(Self)) =>
              /\ EventsOf(call', "get_threshold") = <<>>
              /\ SolverInvoked(call') => SigmaIs(call', config.initial_threshold)
        /\ (SolverInvoked(call') /\ has_moved(Self)) =>
              /\ Len(EventsOf(call', "get_threshold")) = 1
              /\ SigmaIs(call', RetOf(EventsOf(call', "get_threshold")[1]))
        /\ (call'.op = "get_adaptive_threshold" /\ call'.raised = "none") =>
              IF has_moved(Self)
              THEN /\ Len(call'.events) = 1
                   /\ CallRet(call') = RetOf(call'.events[1])
              ELSE /\ call'.events = <<>>
                   /\ CallRet(call') = config.initial_threshold ]_vars

C10_Witness ==
    /\ Succeeded(call)
    /\ Len(EventsOf(call, "get_threshold")) = 1
    /\ RetOf(EventsOf(call, "get_threshold")[1]) # config.initial_threshold
    /\ SigmaIs(call, RetOf(EventsOf(call, "get_threshold")[1]))
    /\ ~ SigmaIs(call, config.initial_threshold)

(***************************************************************************)
(* C12. The cold-start gate is one-shot: once the last pose has been        *)
(* farther than 5 * min_motion_th from the first at some register_frame     *)
(* call, every later register_frame call takes sigma from the threshold     *)
(* model, also when the last pose is again within that distance of the      *)
(* first.  (The pose log only grows, so the log an earlier call met is a    *)
(* prefix of the log this call meets.)                                      *)
(***************************************************************************)
\* Of the log, pose j is farther than 5 * min_motion_th from the first pose.
MovedFromStart(log, j) ==
    TranslationDistSq(log[1], log[j]) > 25 * config.min_motion_th * config.min_motion_th

C12_ColdStartGateOneShot ==
    [][ (Succeeded(call') /\ \E j \in 1 .. Len(poses) : MovedFromStart(poses, j)) =>
            /\ Len(EventsOf(call', "get_threshold")) = 1
            /\ SigmaIs(call', RetOf(EventsOf(call', "get_threshold")[1])) ]_vars

(***************************************************************************)
(* C12, amended. The gate is evaluated anew at every register_frame call,   *)
(* on the first and the last pose of the log the call meets: the call takes *)
(* sigma from the threshold model if the last pose is farther than          *)
(* 5 * min_motion_th from the first, and the configured initial threshold   *)
(* otherwise, whatever the distance was at earlier calls; a sensor back in  *)
(* its start region takes the initial threshold again.                      *)
(***************************************************************************)
C12_ColdStartGateReevaluated ==
    [][ Succeeded(call') =>
          IF poses # <<>> /\ MovedFromStart(poses, Len(poses))
          THEN /\ Len(EventsOf(call', "get_threshold")) = 1
               /\ SigmaIs(call', RetOf(EventsOf(call', "get_threshold")[1]))
          ELSE /\ EventsOf(call', "get_threshold") = <<>>
               /\ SigmaIs(call', config.initial_threshold) ]_vars

\* The fourth frame of a run: the third met a log whose last pose was far from the
\* first, the fourth a log whose last pose was back at the first.
C12_Witness ==
    /\ Succeeded(call)
    /\ Len(poses) = 4
    /\ MovedFromStart(poses, 2)
    /\ ~ MovedFromStart(poses, 3)
    /\ EventsOf(call, "get_threshold") = <<>>
    /\ SigmaIs(call, config.initial_threshold)
    /\ ~ SigmaIs(call, CHOOSE t \in ThresholdValues : TRUE)

(***************************************************************************)
(* C13. prev_frame_delta starts at 1 and is strictly positive in every      *)
(* state; a register_frame call with frame_delta > 0 never fails in the     *)
(* division, and the frame_delta_ratio it uses (given to deskew_scan and to *)
(* get_prediction_model) is frame_delta / prev_frame_delta, strictly        *)
(* positive; a call that returns sets prev_frame_delta to its frame_delta   *)
(* and every other step, a register_frame call that raises included,        *)
(* leaves it as it is: so prev_frame_delta is the frame_delta of the most   *)
(* recent call that returned, or 1 if none has.                             *)
(***************************************************************************)
\* The frame_delta_ratio values call c handed to its collaborators and to the
\* prediction model.
RatiosUsed(c) ==
    { ArgsOf(e).frame_delta_ratio : e \in { c.events[i] : i \in
          { j \in 1 .. Len(c.events) : c.events[j].fn = "deskew_scan" } } }
      \cup { ArgsOf(e) : e \in { c.events[i] : i \in
          { j \in 1 .. Len(c.events) : c.events[j].fn = "get_prediction_model" } } }

C13_FrameDeltaRatio ==
    /\ prev_frame_delta = 1
    /\ [](prev_frame_delta > 0)
    /\ [][ /\ (Registered(call') /\ CallArgs(call').frame_delta > 0) =>
                /\ call'.raised # "ZeroDivisionError"
                /\ call'.events # <<>>
                /\ call'.events[1].fn = "deskew_scan"
                /\ \A r \in RatiosUsed(call') :
                      /\ r[1] * prev_frame_delta = CallArgs(call').frame_delta * r[2]
                      /\ r[1] * r[2] > 0
           /\ IF Succeeded(call')
              THEN prev_frame_delta' = CallArgs(call').frame_delta
              ELSE prev_frame_delta' = prev_frame_delta ]_vars

\* A call that raised in the map update, following a call that returned with
\* frame_delta = 2: the ratio was 1 / 2 and prev_frame_delta is still 2.
C13_Witness ==
    /\ Registered(call)
    /\ call.raised = "Exception"
    /\ MapUpdateInvoked(call)
    /\ CallArgs(call).frame_delta = 1
    /\ prev_frame_delta = 2
    /\ RatiosUsed(call) = { <<1, 2>> }
    /\ Len(poses) >= 1

(***************************************************************************)
(* C14. With two or more poses logged and a frame_delta_ratio above 0.5,    *)
(* the prediction is the last relative motion raised to a power k >= 1, k   *)
(* within 0.5 of the ratio, never to the power 0; for a ratio strictly      *)
(* between 0.5 and 1 the power is 1 and the prediction is the last relative *)
(* motion itself.  This holds of get_prediction_model called on its own     *)
(* and of the prediction a register_frame call computes.                    *)
(***************************************************************************)
PowerAtLeastOne(prediction, log, ratio) ==
    LET n == Len(log)
        model == MatMul(inv(log[n - 1]), log[n])
    IN  /\ \E k \in 1 .. 3 :
              /\ (2 * k - 1) * ratio[2] <= 2 * ratio[1]
              /\ 2 * ratio[1] <= (2 * k + 1) * ratio[2]
              /\ prediction = matrix_power(model, k)
        /\ ratio[1] < ratio[2] => prediction = model

C14_ExponentAtLeastOne ==
    [][ /\ ( /\ call'.op = "get_prediction_model"
             /\ Len(poses) >= 2
             /\ 2 * CallArgs(call')[1] > CallArgs(call')[2] ) =>
                PowerAtLeastOne(CallRet(call'), poses, CallArgs(call'))
        /\ (Registered(call') /\ Len(poses) >= 2) =>
              \A i \in 1 .. Len(call'.events) :
                  ( /\ call'.events[i].fn = "get_prediction_model"
                    /\ 2 * ArgsOf(call'.events[i])[1] > ArgsOf(call'.events[i])[2] ) =>
                      PowerAtLeastOne(RetOf(call'.events[i]), poses, ArgsOf(call'.events[i]))
      ]_vars

\* A ratio just above 0.5 with a last relative motion that is not the identity.
C14_Witness ==
    /\ call.op = "get_prediction_model"
    /\ CallArgs(call) = <<51, 100>>
    /\ Len(poses) >= 2
    /\ CallRet(call) = MatMul(inv(poses[Len(poses) - 1]), poses[Len(poses)])
    /\ CallRet(call) # eye4
    /\ MatMul(CallRet(call), CallRet(call)) # CallRet(call)

(***************************************************************************)
(* C15. A register_frame call takes its steps in the order deskew,          *)
(* preprocess, the two downsamplings, sigma (the threshold model is asked   *)
(* there or not at all), prediction, solve, threshold update, map update,   *)
(* pose append, prev_frame_delta update: a call that returns has taken all  *)
(* of them and a call that raises an initial part of them.  The deskewer    *)
(* is given the pose log as it is before the call, one pose shorter than    *)
(* after a call that returns; has_moved and the prediction are computed     *)
(* from that log too; and the deskewer is given the frame_delta_ratio the   *)
(* prediction model is given.                                               *)
(***************************************************************************)
StepOrder ==
    << "deskew_scan", "preprocess", "voxel_down_sample", "voxel_down_sample",
       "get_prediction_model", "register_frame", "update_model_deviation",
       "local_map.update", "poses.append", "prev_frame_delta" >>

\* The steps of call c, in order.
StepsOf(c) == [i \in 1 .. Len(c.events) |-> c.events[i].fn]

\* s is an initial part of t.
IsPrefix(s, t) == Len(s) <= Len(t) /\ s = SubSeq(t, 1, Len(s))

C15_StepOrder ==
    [][ (Registered(call') /\ CallArgs(call').frame_delta > 0) =>
          LET steps == StepsOf(call')
              others == SelectSeq(steps, LAMBDA fn : fn # "get_threshold")
              deskew == EventsOf(call', "deskew_scan")
              predict == EventsOf(call', "get_prediction_model")
              n == Len(poses)
          IN  /\ IsPrefix(others, StepOrder)
              /\ others # <<>>
              /\ Succeeded(call') <=> others = StepOrder
              /\ \A i \in 1 .. Len(steps) : steps[i] = "get_threshold" => i = 5
              /\ ArgsOf(deskew[1]).poses = poses
              /\ Succeeded(call') => Len(ArgsOf(deskew[1]).poses) = Len(poses') - 1
              /\ EventsOf(call', "get_threshold") # <<>> =>
                    n >= 1 /\ MovedFromStart(poses, n)
              /\ predict # <<>> =>
                    /\ RatEq(ArgsOf(predict[1]), ArgsOf(deskew[1]).frame_delta_ratio)
                    /\ EventsOf(call', "get_threshold") = <<>> =>
                          n = 0 \/ ~ MovedFromStart(poses, n)
                    /\ n < 2 => RetOf(predict[1]) = eye4
                    /\ n >= 2 =>
                          \E k \in 1 .. 3 : RetOf(predict[1])
                                 = matrix_power(MatMul(inv(poses[n - 1]), poses[n]), k) ]_vars

\* A call that returned after asking the threshold model, its ratio 1 / 2, its
\* prediction not the one the log after the call would give.
C15_Witness ==
    /\ Succeeded(call)
    /\ Len(poses) = 3
    /\ Len(StepsOf(call)) = 11
    /\ ArgsOf(EventsOf(call, "deskew_scan")[1]).poses = SubSeq(poses, 1, 2)
    /\ ArgsOf(EventsOf(call, "deskew_scan")[1]).frame_delta_ratio = <<1, 2>>
    /\ RetOf(EventsOf(call, "get_prediction_model")[1]) = MatMul(inv(poses[1]), poses[2])
    /\ RetOf(EventsOf(call, "get_prediction_model")[1]) # MatMul(inv(poses[2]), poses[3])

(***************************************************************************)
(* C16. The voxel map holds one entry per pose of the log, entry i inserted *)
(* at pose i, so the map a call meets is the map as the calls that returned *)
(* before it left it.  In a register_frame call the solver is called at     *)
(* most once and is given that map; the map is updated at most once, only   *)
(* after the solver has returned, at the pose the solver returned, and      *)
(* exactly once in a call that returns; the map changes by that update and  *)
(* in no other step.                                                        *)
(***************************************************************************)
\* The positions in the record of call c of the calls of fn.
StepsAt(c, fn) == { i \in 1 .. Len(c.events) : c.events[i].fn = fn }

C16_MapReadThenUpdatedOnce ==
    /\ [](/\ Len(local_map) = Len(poses)
          /\ \A i \in 1 .. Len(poses) : local_map[i].pose = poses[i])
    /\ [][ IF Registered(call')
           THEN LET solves == StepsAt(call', "register_frame")
                    updates == StepsAt(call', "local_map.update")
                IN  /\ Cardinality(solves) <= 1
                    /\ Cardinality(updates) <= 1
                    /\ \A i \in solves : ArgsOf(call'.events[i]).voxel_map = local_map
                    /\ \A j \in updates :
                          /\ \E i \in solves : i < j /\ ~ call'.events[i].raised
                          /\ ArgsOf(call'.events[j]).pose = RetOf(SolverCall(call'))
                          /\ IF call'.events[j].raised
                             THEN local_map' = local_map
                             ELSE local_map' = Append(local_map, ArgsOf(call'.events[j]))
                    /\ updates = {} => local_map' = local_map
                    /\ Succeeded(call') => Cardinality(updates) = 1
           ELSE local_map' = local_map ]_vars

\* The third frame: the solver was given the map of the first two, and the map was
\* then updated at the pose the solver returned, which was not its initial guess.
C16_Witness ==
    /\ Succeeded(call)
    /\ Len(local_map) = 3
    /\ ArgsOf(SolverCall(call)).voxel_map = SubSeq(local_map, 1, 2)
    /\ local_map[3].pose = RetOf(SolverCall(call))
    /\ local_map[3].pose # ArgsOf(SolverCall(call)).initial_guess
    /\ local_map[3].pose # local_map[2].pose

(***************************************************************************)
(* C17. Whenever a register_frame call has called the solver, with sigma    *)
(* the threshold the model returned in that call, or the configured initial *)
(* threshold if the model was not asked: max_correspondance_distance is     *)
(* 3 * sigma, kernel is sigma / 3, and max_correspondance_distance is       *)
(* 9 * kernel (in exact arithmetic).                                        *)
(***************************************************************************)
\* The sigma of call c.
SigmaOf(c) ==
    IF EventsOf(c, "get_threshold") # <<>> THEN RetOf(EventsOf(c, "get_threshold")[1])
    ELSE config.initial_threshold

C17_DistanceNineTimesKernel ==
    SolverInvoked(call) =>
        LET solve_in == ArgsOf(SolverCall(call))
        IN  /\ solve_in.max_correspondance_distance = 3 * SigmaOf(call)
            /\ 3 * solve_in.kernel[1] = SigmaOf(call) * solve_in.kernel[2]
            /\ solve_in.max_correspondance_distance * solve_in.kernel[2]
                 = 9 * solve_in.kernel[1]

\* The solver called with the initial threshold 2 as sigma: distance 6, kernel 2 / 3.
C17_Witness ==
    /\ SolverInvoked(call)
    /\ EventsOf(call, "get_threshold") = <<>>
    /\ ArgsOf(SolverCall(call)).max_correspondance_distance = 6
    /\ ArgsOf(SolverCall(call)).kernel = <<2, 3>>
    /\ Len(poses) >= 2

(***************************************************************************)
(* C18. In the runs in which no collaborator raises, with valid and invalid *)
(* frame_delta values: the pose log, the updates the threshold model has    *)
(* received and the updates the voxel map has received start empty, each    *)
(* grows by exactly one in a register_frame call that returns and none      *)
(* changes in any other step, so in every state the three have the same     *)
(* length, the number of calls that have returned; and the i-th map update  *)
(* was made at pose i of the log.                                           *)
(***************************************************************************)
C18_OneEntryPerReturnedCall ==
    /\ poses = <<>> /\ adaptive_threshold = <<>> /\ local_map = <<>>
    /\ [](/\ Len(adaptive_threshold) = Len(poses)
          /\ Len(local_map) = Len(poses)
          /\ \A i \in 1 .. Len(local_map) : local_map[i].pose = poses[i])
    /\ [][ IF Succeeded(call')
           THEN /\ Len(poses') = Len(poses) + 1
                /\ Len(adaptive_threshold') = Len(adaptive_threshold) + 1
                /\ Len(local_map') = Len(local_map) + 1
                /\ SubSeq(poses', 1, Len(poses)) = poses
                /\ SubSeq(adaptive_threshold', 1, Len(adaptive_threshold)) = adaptive_threshold
                /\ SubSeq(local_map', 1, Len(local_map)) = local_map
           ELSE UNCHANGED <<poses, adaptive_threshold, local_map>> ]_vars

\* After three calls that returned and a refused one, with an identity deviation
\* among the updates of the threshold model.
C18_Witness ==
    /\ Registered(call)
    /\ call.raised = "RuntimeError"
    /\ Len(poses) = 3
    /\ Len(adaptive_threshold) = 3
    /\ Len(local_map) = 3
    /\ local_map[3].pose = poses[3]
    /\ poses[3] # poses[2]
    /\ \E i \in 1 .. 3 : adaptive_threshold[i] = eye4

====
